---------------------------- MODULE Spec2Model ----------------------------
(***************************************************************************)
(* A model of the ray-casting renderer in src/src/main.rs: the Board, the  *)
(* line through the ray (Straight), next_ray_step, cast_ray,               *)
(* get_hitted_cells, the Transform2D applayer and the fog factor of        *)
(* render_game.                                                            *)
(*                                                                         *)
(* Numbers.  The program computes in f32.  The geometry is modelled in     *)
(* exact arithmetic: a coordinate is a number n/d + e*EPS, kept as the     *)
(* record [n, d, e] with n/d in lowest terms and e in {-1, 0, 1}.  The     *)
(* rays of Spec start on the half-cell grid with direction components in   *)
(* -2..2: their grid crossings are multiples of 1/4, which f32 holds       *)
(* exactly, and EPS (1e-6) only decides floor and ceil at a grid line,     *)
(* which is what the e component does.  The one f32 effect the ray         *)
(* caster's control flow rests on is kept: adding EPS to a coordinate of   *)
(* magnitude 32 or more returns the coordinate unchanged (AddEps).  The    *)
(* rays of FrameSpec have the 430 directions of the field of view; for     *)
(* those the model is the same code read in exact arithmetic.  The         *)
(* coordinate transform is modelled in f32 itself (F32Round).              *)
(***************************************************************************)
EXTENDS Integers, Sequences, FiniteSets, TLC

VARIABLES
    board,      \* the Board
    sets,       \* the calls of Board::new and Board::set made so far
    ray,        \* the locals of cast_ray
    column,     \* the column get_hitted_cells builds from one ray
    lookups,    \* the index pairs get_hitted_cells handed to Board::at
    player,     \* the Player: pos and dir
    all_cells,  \* the array get_hitted_cells returns
    cursor,     \* the number of columns the current loop has done
    drawn,      \* the draw calls render_game made for the last column
    shape,      \* a Vector2 or a Rectangle to transform
    transform,  \* a Transform2D
    out,        \* the results of apply and apply_zoom
    pc

vars == <<board, sets, ray, column, lookups, player, all_cells, cursor, drawn,
          shape, transform, out, pc>>

boardVars == <<board, sets>>

rayVars == <<ray, column, lookups>>

frameVars == <<player, all_cells, cursor, drawn>>

transformVars == <<shape, transform, out>>

-----------------------------------------------------------------------------
(* Integer helpers.                                                        *)

Abs(x) == IF x < 0 THEN -x ELSE x

Sign(x) == IF x < 0 THEN -1 ELSE IF x > 0 THEN 1 ELSE 0

RECURSIVE Gcd(_, _)
Gcd(a, b) == IF b = 0 THEN a ELSE Gcd(b, a % b)

Lcm(a, b) == (a \div Gcd(a, b)) * b

\* floor(n/d) for d > 0 (TLA+'s \div rounds towards minus infinity).
FloorDiv(n, d) == n \div d

CeilDiv(n, d) == -((-n) \div d)

-----------------------------------------------------------------------------
(* Numbers n/d + e*EPS.                                                    *)

Num(n, d, e) ==
    LET g == Gcd(Abs(n), Abs(d))
        s == IF d < 0 THEN -1 ELSE 1
    IN  [n |-> s * (n \div g), d |-> s * (d \div g), e |-> e]

Int2Num(k) == [n |-> k, d |-> 1, e |-> 0]

Half(k) == Num(k, 2, 0)

\* a < b: the standard parts decide, then the EPS parts.
NumLess(a, b) ==
    \/ a.n * b.d < b.n * a.d
    \/ a.n * b.d = b.n * a.d /\ a.e < b.e

NumNeg(a) == [n |-> -a.n, d |-> a.d, e |-> -a.e]

NumAdd(a, b) == Num(a.n * b.d + b.n * a.d, a.d * b.d, a.e + b.e)

NumSub(a, b) == NumAdd(a, NumNeg(b))

\* Products and quotients are only taken of numbers without an EPS part.
NumMul(a, b) == Num(a.n * b.n, a.d * b.d, 0)

NumDiv(a, b) == Num(a.n * b.d, a.d * b.n, 0)

\* f32::floor and f32::ceil.
NumFloor(a) ==
    IF a.d = 1
    THEN Int2Num(IF a.e < 0 THEN a.n - 1 ELSE a.n)
    ELSE Int2Num(FloorDiv(a.n, a.d))

NumCeil(a) ==
    IF a.d = 1
    THEN Int2Num(IF a.e > 0 THEN a.n + 1 ELSE a.n)
    ELSE Int2Num(CeilDiv(a.n, a.d))

\* f32::signum: 1.0 for +0.0 and every positive number, -1.0 for negatives.
Signum(a) == IF a.n < 0 \/ (a.n = 0 /\ a.e < 0) THEN -1 ELSE 1

-----------------------------------------------------------------------------
(* Squared lengths.  A squared length x^2 + y^2 + off is kept by its       *)
(* parts, since the square of a coordinate does not fit TLC's 32-bit       *)
(* integers; two of them are compared exactly, limb by limb.               *)

Limb == 128 * 128

\* <<c2, c1, c0>> with the sum of the squares of xs = c2*Limb^2 + c1*Limb + c0
\* and c1, c0 < Limb; xs holds at most three naturals below 2^27.
RECURSIVE SumSqRaw(_)
SumSqRaw(xs) ==
    IF xs = <<>> THEN <<0, 0, 0>>
    ELSE LET h == Head(xs) \div Limb
             l == Head(xs) % Limb
             r == SumSqRaw(Tail(xs))
         IN  <<r[1] + h * h, r[2] + 2 * h * l, r[3] + l * l>>

SumSq(xs) ==
    LET r  == SumSqRaw(xs)
        c1 == r[2] + (r[3] \div Limb)
    IN  <<r[1] + (c1 \div Limb), c1 % Limb, r[3] % Limb>>

\* -1, 0 or 1 as t is below, equal to or above u (lexicographic).
TripleCmp(t, u) ==
    IF t[1] # u[1] THEN Sign(t[1] - u[1])
    ELSE IF t[2] # u[2] THEN Sign(t[2] - u[2])
    ELSE Sign(t[3] - u[3])

\* |a| scaled to the denominator L (a multiple of a.d).
Scaled(a, L) == Abs(a.n) * (L \div a.d)

LengthSqr(v) == [x |-> v[1], y |-> v[2], off |-> 0]

SqSubOne(q) == [q EXCEPT !.off = q.off - 1]

\* -1, 0 or 1 as the squared length a is below, equal to or above b.  The
\* standard parts decide; on a tie the terms in EPS and then in EPS^2 do.
SqCmp(a, b) ==
    LET L   == Lcm(Lcm(a.x.d, a.y.d), Lcm(b.x.d, b.y.d))
        k   == a.off - b.off
        as  == <<Scaled(a.x, L), Scaled(a.y, L)>> \o (IF k > 0 THEN <<L>> ELSE <<>>)
        bs  == <<Scaled(b.x, L), Scaled(b.y, L)>> \o (IF k < 0 THEN <<L>> ELSE <<>>)
        std == TripleCmp(SumSq(as), SumSq(bs))
        \* the coefficient of 2*EPS, over the denominator L
        ea  == a.x.n * (L \div a.x.d) * a.x.e + a.y.n * (L \div a.y.d) * a.y.e
        eb  == b.x.n * (L \div b.x.d) * b.x.e + b.y.n * (L \div b.y.d) * b.y.e
        \* the coefficient of EPS^2
        qa  == a.x.e * a.x.e + a.y.e * a.y.e
        qb  == b.x.e * b.x.e + b.y.e * b.y.e
    IN  IF std # 0 THEN std
        ELSE IF ea # eb THEN Sign(ea - eb)
        ELSE Sign(qa - qb)

SqLess(a, b) == SqCmp(a, b) < 0

SqEq(a, b) == SqCmp(a, b) = 0

-----------------------------------------------------------------------------
(* Vector2 (raylib::math::Vector2).                                        *)

Vec(x, y) == <<x, y>>

VecAdd(u, v) == <<NumAdd(u[1], v[1]), NumAdd(u[2], v[2])>>

VecSub(u, v) == <<NumSub(u[1], v[1]), NumSub(u[2], v[2])>>

\* point.distance_to(start).powi(2): the root and the square cancel.
DistanceToSq(p, q) == LengthSqr(VecSub(p, q))

-----------------------------------------------------------------------------
(* Cell and Board.                                                         *)

EMPTY == [kind |-> "EMPTY"]

COLOR(c) == [kind |-> "COLOR", of |-> c]

TEXTURE(t) == [kind |-> "TEXTURE", of |-> t]

TranslucentTexture(t) == [kind |-> "TranslucentTexture", of |-> t]

\* Board::new: rows * cols references to Cell::EMPTY, row-major.
BoardNew(rows, cols) ==
    [rows |-> rows, cols |-> cols, cells |-> [i \in 1..(rows * cols) |-> EMPTY]]

\* The two assertions of Board::at and Board::set (x and y are usize).
InBounds(b, x, y) == x < b.cols /\ y < b.rows

\* A variant that leaves the row stride out.
CellIndexNoStride(b, x, y) == y + x + 1

\* The index into cells (1-based here, 0-based in the Vec).
CellIndex(b, x, y) == y * b.cols + x + 1

BoardAt(b, x, y) == b.cells[CellIndex(b, x, y)]

BoardSet(b, x, y, cell) == [b EXCEPT !.cells[CellIndex(b, x, y)] = cell]

-----------------------------------------------------------------------------
(* Straight: the line through the ray.                                     *)

\* A variant that takes the slope of a vertical ray for dir.y.
StraightNewSteep(p1, p2) ==
    LET dir == VecSub(p2, p1)
        a   == IF dir[1].n # 0 THEN NumDiv(dir[2], dir[1]) ELSE dir[2]
        b   == NumSub(p1[2], NumMul(p1[1], a))
    IN  [a |-> a, b |-> b, dir |-> dir]

StraightNew(p1, p2) ==
    LET dir == VecSub(p2, p1)
        a   == IF dir[1].n # 0 THEN NumDiv(dir[2], dir[1]) ELSE Int2Num(0)
        b   == NumSub(p1[2], NumMul(p1[1], a))
    IN  [a |-> a, b |-> b, dir |-> dir]

StraightF(s, x) == NumAdd(NumMul(x, s.a), s.b)

StraightF1(s, y) == NumDiv(NumSub(y, s.b), s.a)

next_ray_step(current, straight) ==
    LET x  == IF straight.dir[1].n > 0 THEN NumCeil(current[1])
              ELSE NumFloor(current[1])
        y  == StraightF(straight, x)
        y2 == IF straight.dir[2].n > 0 THEN NumCeil(current[2])
              ELSE NumFloor(current[2])
        x2 == StraightF1(straight, y2)
    IN  IF /\ straight.a.n # 0
           /\ SqLess(LengthSqr(VecSub(Vec(x2, y2), current)),
                     LengthSqr(VecSub(Vec(x, y), current)))
        THEN Vec(x2, y2)
        ELSE Vec(x, y)

-----------------------------------------------------------------------------
(* cast_ray.                                                               *)

FAR_CLIPING_PLANE == 10

\* FAR_CLIPING_PLANE*FAR_CLIPING_PLANE
FarSq == LengthSqr(Vec(Int2Num(FAR_CLIPING_PLANE), Int2Num(0)))

\* The magnitude from which f32 addition loses EPS: the floats of [32, 64)
\* are 2^-18 apart, more than twice EPS.
EpsAbsorbedFrom == 32

\* v + eps in f32, for a coordinate v and eps = +EPS or -EPS.
AddEps(v, eps) ==
    LET big == EpsAbsorbedFrom * v.d
    IN  IF \/ Abs(v.n) > big
           \/ Abs(v.n) = big /\ Sign(v.n) = eps.e
        THEN v
        ELSE NumAdd(v, eps)

\* point.add(eps)
VecAddEps(p, eps) == <<AddEps(p[1], eps[1]), AddEps(p[2], eps[2])>>

\* Vector2::new(signum(dir.x) * EPS, signum(dir.y) * EPS)
EpsVec(dir) ==
    Vec([n |-> 0, d |-> 1, e |-> Signum(dir[1])],
        [n |-> 0, d |-> 1, e |-> Signum(dir[2])])

\* `v as usize` of an f32: truncates, and saturates at 0.
AsUsize(v) == IF v.n < 0 THEN 0 ELSE v.n \div v.d

\* A variant that does not clamp.
ClampIndexNone(v, n) == AsUsize(v)

\* f32::max(f32::min(v, n as f32 - 1.0), 0.0) as usize
ClampIndex(v, n) ==
    LET top == Int2Num(n - 1)
        lo  == IF NumLess(top, v) THEN top ELSE v
        hi  == IF NumLess(lo, Int2Num(0)) THEN Int2Num(0) ELSE lo
    IN  AsUsize(hi)

\* The column and the row of the cell ahead of point (lines 192-196).
AheadX(point, dir) ==
    IF dir[1].n > 0 THEN NumFloor(point[1])
    ELSE NumSub(NumCeil(point[1]), Int2Num(1))

AheadY(point, dir, eps) ==
    IF dir[2].n > 0 THEN NumFloor(AddEps(point[2], eps[2]))
    ELSE NumSub(NumCeil(point[2]), Int2Num(1))

\* The state of cast_ray on entry to its loop.  visited logs, per iteration,
\* the point, the index pair handed to Board::at and the cell it returned.
CastRayInit(start, dir) ==
    LET straight == StraightNew(start, VecAdd(start, dir))
        point    == next_ray_step(start, straight)
        dist     == DistanceToSq(point, start)
    IN  [start |-> start, dir |-> dir, straight |-> straight,
         eps |-> EpsVec(straight.dir), point |-> point, points |-> <<>>,
         dist |-> dist, last_dist |-> SqSubOne(dist),
         visited |-> <<>>, pc |-> "loop"]

\* A variant that compares the squared distance with FAR_CLIPING_PLANE itself
\* (10 = 1*1 + 3*3) instead of its square.
LoopCondUnsquared(r) ==
    /\ SqLess(r.dist, LengthSqr(Vec(Int2Num(1), Int2Num(3))))
    /\ ~SqEq(r.dist, r.last_dist)

\* dist < FAR_CLIPING_PLANE*FAR_CLIPING_PLANE && dist != last_dist
LoopCond(r) == SqLess(r.dist, FarSq) /\ ~SqEq(r.dist, r.last_dist)

\* The end of an iteration that did not break (lines 211-214).
Advance(r) ==
    LET point == next_ray_step(VecAddEps(r.point, r.eps), r.straight)
    IN  [r EXCEPT !.point = point, !.last_dist = r.dist,
                  !.dist = DistanceToSq(point, r.start)]

\* A variant whose opaque arm does not break.
CastRayStepNoBreak(r, b) ==
    IF ~LoopCond(r) THEN [r EXCEPT !.pc = "returned"]
    ELSE
      LET x    == ClampIndex(AheadX(r.point, r.dir), b.cols)
          y    == ClampIndex(AheadY(r.point, r.dir, r.eps), b.rows)
          cell == BoardAt(b, x, y)
          seen == [r EXCEPT !.visited = Append(@,
                     [point |-> r.point, x |-> x, y |-> y,
                      cell |-> IF InBounds(b, x, y) THEN cell ELSE EMPTY])]
      IN  IF ~InBounds(b, x, y) THEN [seen EXCEPT !.pc = "panicked"]
          ELSE IF cell.kind = "EMPTY" THEN Advance(seen)
          ELSE Advance([seen EXCEPT !.points = Append(@, r.point)])

\* One pass of the while loop, or its exit.
CastRayStep(r, b) ==
    IF ~LoopCond(r) THEN [r EXCEPT !.pc = "returned"]
    ELSE
      LET x    == ClampIndex(AheadX(r.point, r.dir), b.cols)
          y    == ClampIndex(AheadY(r.point, r.dir, r.eps), b.rows)
          cell == BoardAt(b, x, y)
          seen == [r EXCEPT !.visited = Append(@,
                     [point |-> r.point, x |-> x, y |-> y,
                      cell |-> IF InBounds(b, x, y) THEN cell ELSE EMPTY])]
      IN  IF ~InBounds(b, x, y) THEN [seen EXCEPT !.pc = "panicked"]
          ELSE IF cell.kind = "EMPTY" THEN Advance(seen)
          ELSE IF cell.kind = "TranslucentTexture"
               THEN Advance([seen EXCEPT !.points = Append(@, r.point)])
          ELSE [seen EXCEPT !.points = Append(@, r.point), !.pc = "returned"]

RECURSIVE CastRayRun(_, _)
CastRayRun(r, b) == IF r.pc # "loop" THEN r ELSE CastRayRun(CastRayStep(r, b), b)

\* cast_ray(start, dir, board), as the final state of its loop.
cast_ray(start, dir, b) == CastRayRun(CastRayInit(start, dir), b)

-----------------------------------------------------------------------------
(* get_hitted_cells: one column.                                           *)

\* (&Cell::EMPTY, Vector2::zero())
Sentinel == [cell |-> EMPTY, point |-> Vec(Int2Num(0), Int2Num(0))]

\* point.x >= 0.0 && point.x < cols && point.y >= 0.0 && point.y < rows
PointInBoard(point, b) ==
    /\ ~NumLess(point[1], Int2Num(0)) /\ NumLess(point[1], Int2Num(b.cols))
    /\ ~NumLess(point[2], Int2Num(0)) /\ NumLess(point[2], Int2Num(b.rows))

\* The index pair of lines 237-240.
OwnerX(point, dir) ==
    AsUsize(IF dir[1].n > 0 THEN NumFloor(point[1])
            ELSE NumSub(NumCeil(point[1]), Int2Num(1)))

OwnerY(point, dir) ==
    AsUsize(IF dir[2].n > 0 THEN NumFloor(point[2])
            ELSE NumSub(NumCeil(point[2]), Int2Num(1)))

\* The entry pushed for one hit point (lines 232-244); at records the index
\* pair handed to Board::at, if any.
ResolveHit(point, dir, b) ==
    IF PointInBoard(point, b)
    THEN LET x == OwnerX(point, dir)
             y == OwnerY(point, dir)
         IN  [cell |-> IF InBounds(b, x, y) THEN BoardAt(b, x, y) ELSE EMPTY,
              point |-> point, at |-> <<x, y>>]
    ELSE [cell |-> EMPTY, point |-> point, at |-> <<>>]

\* A variant that starts a column empty.
NoSentinel == <<>>

\* vec![(&Cell::EMPTY, Vector2::zero())]
NewColumn == <<Sentinel>>

\* cells.push(cell)
PushCell(cells, hit) == Append(cells, [cell |-> hit.cell, point |-> hit.point])

\* The loop over a ray's points (lines 231-245): the column's cells, the
\* index pairs handed to Board::at, and whether an assertion of at failed.
RECURSIVE ResolveAll(_, _, _, _)
ResolveAll(col, points, dir, b) ==
    IF points = <<>> \/ col.panicked THEN col
    ELSE LET hit == ResolveHit(Head(points), dir, b)
             bad == hit.at # <<>> /\ ~InBounds(b, hit.at[1], hit.at[2])
         IN  ResolveAll([cells    |-> IF bad THEN col.cells ELSE PushCell(col.cells, hit),
                         ats      |-> IF hit.at = <<>> THEN col.ats
                                      ELSE Append(col.ats, hit.at),
                         panicked |-> bad],
                        Tail(points), dir, b)

ResolveColumn(cells, points, dir, b) ==
    ResolveAll([cells |-> cells, ats |-> <<>>, panicked |-> FALSE], points, dir, b)

-----------------------------------------------------------------------------
(* One ray: a ray is cast through a board step by step, and its hits are   *)
(* resolved as get_hitted_cells resolves a column's.                       *)

MaxRows == 2

MaxCols == 2

MaxSets == 2

\* How far from the board, in cells, the far starts lie.
FarOut == 40

\* The cells a ray meets: one opaque, one translucent.
CellValues == {COLOR("BLUE"), TranslucentTexture("glass")}

\* The boards that Board::new(rows, cols) and at most k calls of set build.
RECURSIVE BoardsAfter(_, _, _)
BoardsAfter(rows, cols, k) ==
    IF k = 0 THEN {BoardNew(rows, cols)}
    ELSE LET prev == BoardsAfter(rows, cols, k - 1)
         IN  prev \cup {BoardSet(b, x, y, cell) :
                          b \in prev, x \in 0..(cols - 1), y \in 0..(rows - 1),
                          cell \in CellValues}

\* Start points on the half-cell grid, from half a cell outside the board
\* on each side, and two far from it.
Starts(b) ==
    {Vec(Half(X), Half(Y)) : X \in -1..(2 * b.cols + 1), Y \in -1..(2 * b.rows + 1)}
        \cup {Vec(Half(2 * (b.cols + FarOut) + 1), Half(1)),
              Vec(Half(-(2 * FarOut) - 1), Half(1))}

\* The directions with components in -2..2, one vector per direction.
Dirs ==
    {Vec(Int2Num(dx), Int2Num(dy)) : dx \in -2..2, dy \in -2..2}
        \ {Vec(Int2Num(2 * dx), Int2Num(2 * dy)) : dx \in -1..1, dy \in -1..1}

NoRay == [pc |-> "none"]

None == [pc |-> "none"]

\* The variables a specification does not use stay as they are here.
NoBoard == board = None /\ sets = <<>>

NoCast == ray = NoRay /\ column = <<>> /\ lookups = <<>>

NoFrame == player = None /\ all_cells = <<>> /\ cursor = 0 /\ drawn = <<>>

NoTransform == shape = None /\ transform = None /\ out = None

Init ==
    /\ \E r \in 1..MaxRows, c \in 1..MaxCols : board \in BoardsAfter(r, c, MaxSets)
    /\ sets = <<>>
    /\ NoCast /\ NoFrame /\ NoTransform
    /\ pc = "setup"

\* cast_ray is entered: everything before its loop.
CastRayBegin ==
    /\ pc = "setup"
    /\ \E start \in Starts(board), dir \in Dirs : ray' = CastRayInit(start, dir)
    /\ pc' = "cast"
    /\ UNCHANGED <<boardVars, column, lookups, frameVars, transformVars>>

\* One test of the loop condition, and one pass of the loop if it holds.
CastRayIterate ==
    /\ pc = "cast"
    /\ ray.pc = "loop"
    /\ ray' = CastRayStep(ray, board)
    /\ UNCHANGED <<boardVars, column, lookups, frameVars, transformVars, pc>>

\* The caller's loop over the returned points (lines 231-245).
Resolve ==
    /\ pc = "cast"
    /\ ray.pc = "returned"
    /\ LET col == ResolveColumn(NewColumn, ray.points, ray.dir, board)
       IN  /\ column' = col.cells
           /\ lookups' = col.ats
           /\ pc' = IF col.panicked THEN "panicked" ELSE "done"
    /\ UNCHANGED <<boardVars, ray, frameVars, transformVars>>

Next == CastRayBegin \/ CastRayIterate \/ Resolve

Spec == Init /\ [][Next]_vars

-----------------------------------------------------------------------------
(* The Board: Board::new, then calls of Board::set.                        *)

\* The calls of set a board receives.
MaxCalls == 3

\* The cells handed to set.
BoardCells == CellValues \cup {EMPTY}

BoardInit ==
    /\ \E rows \in 0..MaxRows, cols \in 0..MaxCols :
          /\ board = BoardNew(rows, cols)
          /\ sets = <<[op |-> "new", rows |-> rows, cols |-> cols]>>
    /\ NoCast /\ NoFrame /\ NoTransform
    /\ pc = "board"

\* Board::set, with its assertions (lines 64-68).
Set ==
    /\ pc = "board"
    /\ Len(sets) <= MaxCalls
    /\ \E x \in 0..board.cols, y \in 0..board.rows, cell \in BoardCells :
          IF InBounds(board, x, y)
          THEN /\ board' = BoardSet(board, x, y, cell)
               /\ sets' = Append(sets, [op |-> "set", x |-> x, y |-> y, cell |-> cell])
               /\ pc' = pc
          ELSE /\ pc' = "panicked"
               /\ UNCHANGED boardVars
    /\ UNCHANGED <<rayVars, frameVars, transformVars>>

BoardNext == Set

BoardSpec == BoardInit /\ [][BoardNext]_vars

-----------------------------------------------------------------------------
(* One frame: render_game calls get_hitted_cells, which casts NUM_OF_RAYS  *)
(* rays across the field of view, and draws the columns it returns.        *)
(*                                                                         *)
(* The field of view is 90 degrees, so the first and the last direction    *)
(* are the player's direction turned by 45 degrees either way: (x - y,     *)
(* x + y) and (x + y, y - x), both times sqrt 2 / 2.  cast_ray depends on  *)
(* the direction only up to a positive factor, so the factor is left out,  *)
(* and dir is the exact sum start + i * lerp_amount that the program       *)
(* accumulates in f32.                                                     *)

NUM_OF_RAYS == 430

\* game.player.dir.rotated(half_fov), up to the factor sqrt 2 / 2
FovStart(dir) == Vec(NumSub(dir[1], dir[2]), NumAdd(dir[1], dir[2]))

\* game.player.dir.rotated(-half_fov), up to the same factor
FovEnd(dir) == Vec(NumAdd(dir[1], dir[2]), NumSub(dir[2], dir[1]))

\* end.sub(start).div(NUM_OF_RAYS as f32)
LerpAmount(dir) ==
    LET d == VecSub(FovEnd(dir), FovStart(dir))
    IN  Vec(NumDiv(d[1], Int2Num(NUM_OF_RAYS)), NumDiv(d[2], Int2Num(NUM_OF_RAYS)))

\* dir after i passes of the loop: start, then i times dir.add_assign(lerp_amount)
FovDir(dir, i) ==
    LET l == LerpAmount(dir)
    IN  VecAdd(FovStart(dir),
               Vec(NumMul(Int2Num(i), l[1]), NumMul(Int2Num(i), l[2])))

\* [(); NUM_OF_RAYS].map(|_| vec![(&Cell::EMPTY, Vector2::zero())])
NewAllCells == [i \in 1..NUM_OF_RAYS |-> NewColumn]

\* Vector2::dot
Dot(u, v) == NumAdd(NumMul(u[1], v[1]), NumMul(u[2], v[2]))

\* Vector2::new(cols, rows).length(), kept as its square
MaxDist(b) == LengthSqr(Vec(Int2Num(b.cols), Int2Num(b.rows)))

\* The two amounts render_game hands to darken_color: max_dist itself, and
\* dist / max_dist.
WholeOf(max_dist) == [of |-> "max_dist", sq |-> max_dist]

RatioOf(dist, max_dist) == [of |-> "dist/max_dist", dist |-> dist, sq |-> max_dist]

\* darken_color: the colour with its HSV value multiplied by 1 - dist
darken_color(color, dist) == [color |-> color, less |-> dist]

\* The body of the inner loop of render_game for one entry of a column: the
\* draw call it makes, if any.
RenderCell(entry, pl, b) ==
    LET dist     == Dot(VecSub(entry.point, pl.pos), pl.dir)
        max_dist == MaxDist(b)
    IN  IF entry.cell.kind = "EMPTY" THEN <<>>
        ELSE IF entry.cell.kind = "COLOR"
        THEN <<[call |-> "draw_rectangle_v", cell |-> entry.cell, dist |-> dist,
                color |-> darken_color(entry.cell.of, WholeOf(max_dist))]>>
        ELSE <<[call |-> "draw_texture_pro", cell |-> entry.cell, dist |-> dist,
                color |-> darken_color("WHITE", RatioOf(dist, max_dist))]>>

\* The inner loop: the entries of a column, last to first.
RECURSIVE RenderCells(_, _, _)
RenderCells(cells, pl, b) ==
    IF cells = <<>> THEN <<>>
    ELSE RenderCell(cells[Len(cells)], pl, b)
            \o RenderCells(SubSeq(cells, 1, Len(cells) - 1), pl, b)

FrameCells == CellValues \cup {TEXTURE("atumalaca")}

\* A board of MaxRows x MaxCols cells, EMPTY or with its last cell set.
FrameBoards ==
    {BoardNew(MaxRows, MaxCols)}
        \cup {BoardSet(BoardNew(MaxRows, MaxCols), MaxCols - 1, MaxRows - 1, cell) :
                 cell \in FrameCells}

\* The player at the corner Player::new(0, 0) of main, or at the centre of
\* the first cell, where a click on the minimap puts it; looking along the x
\* axis, as Player::new leaves it, or along (3/5, 4/5).
FramePlayers ==
    {[pos |-> Vec(Int2Num(0), Int2Num(0)), dir |-> Vec(Int2Num(1), Int2Num(0))],
     [pos |-> Vec(Half(1), Half(1)),       dir |-> Vec(Int2Num(1), Int2Num(0))],
     [pos |-> Vec(Half(1), Half(1)),       dir |-> Vec(Num(3, 5, 0), Num(4, 5, 0))]}

FrameInit ==
    /\ board \in FrameBoards
    /\ sets = <<>>
    /\ player \in FramePlayers
    /\ all_cells = <<>> /\ cursor = 0 /\ drawn = <<>>
    /\ NoCast /\ NoTransform
    /\ pc = "frame"

\* render_game calls get_hitted_cells, which makes the array (line 221).
GetHittedCellsBegin ==
    /\ pc = "frame"
    /\ all_cells' = NewAllCells
    /\ cursor' = 0
    /\ pc' = "fov"
    /\ UNCHANGED <<boardVars, rayVars, player, drawn, transformVars>>

\* One pass of the loop over the columns (lines 230-248).
CastColumn ==
    /\ pc = "fov"
    /\ cursor < NUM_OF_RAYS
    /\ LET dir == FovDir(player.dir, cursor)
           r   == cast_ray(player.pos, dir, board)
           col == ResolveColumn(all_cells[cursor + 1], r.points, dir, board)
       IN  /\ all_cells' = [all_cells EXCEPT ![cursor + 1] = col.cells]
           /\ pc' = IF r.pc = "panicked" \/ col.panicked THEN "panicked" ELSE pc
    /\ cursor' = cursor + 1
    /\ UNCHANGED <<boardVars, rayVars, player, drawn, transformVars>>

\* get_hitted_cells returns the array.
GetHittedCellsReturn ==
    /\ pc = "fov"
    /\ cursor = NUM_OF_RAYS
    /\ cursor' = 0
    /\ pc' = "render"
    /\ UNCHANGED <<boardVars, rayVars, player, all_cells, drawn, transformVars>>

\* One pass of the outer loop of render_game (lines 298-337): the columns
\* are taken last to first.
RenderColumn ==
    /\ pc = "render"
    /\ cursor < NUM_OF_RAYS
    /\ drawn' = RenderCells(all_cells[NUM_OF_RAYS - cursor], player, board)
    /\ cursor' = cursor + 1
    /\ pc' = IF cursor + 1 = NUM_OF_RAYS THEN "shown" ELSE pc
    /\ UNCHANGED <<boardVars, rayVars, player, all_cells, transformVars>>

FrameNext == GetHittedCellsBegin \/ CastColumn \/ GetHittedCellsReturn \/ RenderColumn

FrameSpec == FrameInit /\ [][FrameNext]_vars

-----------------------------------------------------------------------------
(* The coordinate transform, in f32.  A float is m * 2^e, kept as the      *)
(* record [m, e] with m odd or zero and |m| < 2^24; its exponent stays     *)
(* far from the ends of the f32 range, so there are no infinities, NaNs or *)
(* subnormals here.  Sums and products are rounded to 24 significant bits, *)
(* ties to even.                                                           *)

MantissaBits == 24

RECURSIVE BitLen(_)
BitLen(n) == IF n = 0 THEN 0 ELSE 1 + BitLen(n \div 2)

\* m * 2^e with the factors of two moved from m into e.
RECURSIVE Canon(_, _)
Canon(m, e) ==
    IF m = 0 THEN [m |-> 0, e |-> 0]
    ELSE IF m % 2 = 0 THEN Canon(m \div 2, e + 1)
    ELSE [m |-> m, e |-> e]

\* The float nearest to m * 2^e, ties to even.
F32Round(m, e) ==
    LET a == Abs(m)
        n == BitLen(a)
    IN  IF n <= MantissaBits THEN Canon(m, e)
        ELSE LET s    == n - MantissaBits
                 q    == a \div (2 ^ s)
                 r    == a % (2 ^ s)
                 half == 2 ^ (s - 1)
                 up   == r > half \/ (r = half /\ q % 2 = 1)
             IN  Canon(Sign(m) * (IF up THEN q + 1 ELSE q), e + s)

\* A float other than zero with its mantissa shifted to 24 bits exactly.
F32Norm(x) ==
    LET n == BitLen(Abs(x.m))
    IN  [m |-> Abs(x.m) * 2 ^ (MantissaBits - n), e |-> x.e - (MantissaBits - n),
         s |-> Sign(x.m)]

\* v with its lowest bit set if sticky: bits were lost below it.
WithSticky(v, sticky) == IF sticky /\ v % 2 = 0 THEN v + 1 ELSE v

\* x + y: the smaller operand is shifted down to the larger one's exponent,
\* keeping three more bits, the last of them sticky.
F32Add(x, y) ==
    IF x.m = 0 THEN y
    ELSE IF y.m = 0 THEN x
    ELSE LET nx == F32Norm(x)
             ny == F32Norm(y)
             hi == IF nx.e >= ny.e THEN nx ELSE ny
             lo == IF nx.e >= ny.e THEN ny ELSE nx
             d  == hi.e - lo.e
             b  == IF d > MantissaBits + 3 THEN 1
                   ELSE WithSticky((lo.m * 8) \div (2 ^ d), (lo.m * 8) % (2 ^ d) # 0)
         IN  F32Round(hi.s * hi.m * 8 + lo.s * b, hi.e - 3)

F32Neg(x) == [m |-> -x.m, e |-> x.e]

F32Sub(x, y) == F32Add(x, F32Neg(y))

\* x * y: the 48-bit product of the mantissas in limbs of 12 bits, of which
\* the upper 27 are kept, the last of them sticky.
F32Mul(x, y) ==
    IF x.m = 0 \/ y.m = 0 THEN [m |-> 0, e |-> 0]
    ELSE LET nx    == F32Norm(x)
             ny    == F32Norm(y)
             x1    == nx.m \div 4096
             x0    == nx.m % 4096
             y1    == ny.m \div 4096
             y0    == ny.m % 4096
             low   == x0 * y0
             mid   == x1 * y0 + x0 * y1
             c1    == (low \div 4096) + (mid % 4096)
             l1    == c1 % 4096
             upper == (c1 \div 4096) + (mid \div 4096) + x1 * y1
             top   == WithSticky(upper * 8 + (l1 \div 512),
                                 l1 % 512 # 0 \/ low % 4096 # 0)
         IN  F32Round(nx.s * ny.s * top, nx.e + ny.e + 21)

\* Vector2::mul, Vector2::add and Vector2::sub, component by component
Vector2Mul(u, v) == [x |-> F32Mul(u.x, v.x), y |-> F32Mul(u.y, v.y)]

Vector2Add(u, v) == [x |-> F32Add(u.x, v.x), y |-> F32Add(u.y, v.y)]

Vector2Sub(u, v) == [x |-> F32Sub(u.x, v.x), y |-> F32Sub(u.y, v.y)]

\* self.mul(t.zoom).add(t.offset)
Vector2Apply(v, tr) == Vector2Add(Vector2Mul(v, tr.zoom), tr.offset)

\* A variant that scales both components by zoom.x.
Vector2ApplyZoomByX(v, tr) == [x |-> F32Mul(v.x, tr.zoom.x), y |-> F32Mul(v.y, tr.zoom.x)]

\* self.mul(t.zoom)
Vector2ApplyZoom(v, tr) == Vector2Mul(v, tr.zoom)

RectangleApply(r, tr) ==
    [x      |-> F32Add(F32Mul(r.x, tr.zoom.x), tr.offset.x),
     y      |-> F32Add(F32Mul(r.y, tr.zoom.y), tr.offset.y),
     width  |-> F32Mul(r.width, tr.zoom.x),
     height |-> F32Mul(r.height, tr.zoom.y)]

RectangleApplyZoom(r, tr) ==
    [x      |-> F32Mul(r.x, tr.zoom.x),
     y      |-> F32Mul(r.y, tr.zoom.y),
     width  |-> F32Mul(r.width, tr.zoom.x),
     height |-> F32Mul(r.height, tr.zoom.y)]

\* The f32 nearest to 1/3, to 1/10 and to 17.2 (the minimap's zoom in main).
Third32 == Canon(11184811, -25)

Tenth32 == Canon(13421773, -27)

MinimapZoom32 == Canon(4508877, -18)

Coordinates == {Canon(0, 0), Canon(1, 0), Canon(1, -1), Canon(215, 0), Third32}

Zooms == {Canon(1, 0), Canon(2, 0), MinimapZoom32}

Offsets == {Canon(0, 0), Canon(678, 0), Tenth32}

Sizes == {Canon(1, 0), Third32}

Shapes ==
    {[kind |-> "Vector2", x |-> x, y |-> y] : x \in Coordinates, y \in Coordinates}
        \cup {[kind |-> "Rectangle", x |-> x, y |-> y, width |-> w, height |-> h] :
                 x \in Coordinates, y \in Coordinates, w \in Sizes, h \in Sizes}

Transforms ==
    {[offset |-> [x |-> ox, y |-> oy], zoom |-> [x |-> zx, y |-> zy]] :
        ox \in Offsets, oy \in Offsets, zx \in Zooms, zy \in Zooms}

TransformInit ==
    /\ shape \in Shapes
    /\ transform \in Transforms
    /\ out = None
    /\ NoBoard /\ NoCast /\ NoFrame
    /\ pc = "transform"

\* apply and apply_zoom of a Vector2 (lines 112-120).
ApplyVector2 ==
    /\ pc = "transform"
    /\ shape.kind = "Vector2"
    /\ out' = [apply      |-> Vector2Apply(shape, transform),
               apply_zoom |-> Vector2ApplyZoom(shape, transform)]
    /\ pc' = "applied"
    /\ UNCHANGED <<boardVars, rayVars, frameVars, shape, transform>>

\* apply and apply_zoom of a Rectangle (lines 122-140).
ApplyRectangle ==
    /\ pc = "transform"
    /\ shape.kind = "Rectangle"
    /\ out' = [apply      |-> RectangleApply(shape, transform),
               apply_zoom |-> RectangleApplyZoom(shape, transform)]
    /\ pc' = "applied"
    /\ UNCHANGED <<boardVars, rayVars, frameVars, shape, transform>>

TransformNext == ApplyVector2 \/ ApplyRectangle

TransformSpec == TransformInit /\ [][TransformNext]_vars

-----------------------------------------------------------------------------
(* Claims about the Board.                                                 *)

\* The cell of the last call set(x, y, _) in calls, EMPTY if there is none.
RECURSIVE LastSet(_, _, _)
LastSet(calls, x, y) ==
    IF calls = <<>> THEN EMPTY
    ELSE LET c == calls[Len(calls)]
         IN  IF c.op = "set" /\ c.x = x /\ c.y = y THEN c.cell
             ELSE LastSet(SubSeq(calls, 1, Len(calls) - 1), x, y)

\* C5: a board made by Board::new(rows, cols) has rows * cols cells, all
\* EMPTY; after any calls of set inside the board, at(x, y) is the cell of the
\* last set at (x, y), or EMPTY if there was none; rows, cols and the number
\* of cells never change.
C5_AtIsLastSet ==
    sets # <<>> =>
       /\ board.rows = sets[1].rows
       /\ board.cols = sets[1].cols
       /\ Len(board.cells) = sets[1].rows * sets[1].cols
       /\ \A x \in 0..(board.cols - 1), y \in 0..(board.rows - 1) :
             BoardAt(board, x, y) = LastSet(sets, x, y)

\* A board on which one position was set twice, to different cells, another
\* once, and a third never.
C5_Witness ==
    /\ Len(sets) = 4
    /\ sets[2].x = sets[4].x /\ sets[2].y = sets[4].y
    /\ sets[2].cell # sets[4].cell /\ sets[4].cell # EMPTY
    /\ <<sets[3].x, sets[3].y>> # <<sets[2].x, sets[2].y>>
    /\ sets[3].cell # EMPTY
    /\ board.rows * board.cols > 2

-----------------------------------------------------------------------------
(* Claims about one ray.                                                   *)

\* cast_ray has been entered.
Casting == pc \in {"cast", "done", "panicked"}

Opaque(cell) == cell.kind \in {"COLOR", "TEXTURE"}

\* The iterations of the loop whose lookup returned a cell that is not EMPTY.
Hits(r) == SelectSeq(r.visited, LAMBDA v : v.cell.kind # "EMPTY")

AllEmpty(b) == \A i \in 1..Len(b.cells) : b.cells[i] = EMPTY

Zero == Int2Num(0)

\* C1: the points cast_ray has recorded are, in order, the points of the
\* iterations that looked up a cell that is not EMPTY; every one but the last
\* was recorded at a TranslucentTexture cell; an opaque (COLOR or TEXTURE)
\* cell is recorded only in the last iteration of the loop, which then has
\* stopped; and the points are in order of non-decreasing distance from start.
C1_TranslucentThenOpaque ==
    Casting =>
      LET h == Hits(ray)
      IN  /\ ray.points = [i \in 1..Len(h) |-> h[i].point]
          /\ \A i \in 1..Len(h) :
                \/ h[i].cell.kind = "TranslucentTexture"
                \/ /\ Opaque(h[i].cell)
                   /\ i = Len(h)
                   /\ ray.pc = "returned"
                   /\ ray.visited[Len(ray.visited)] = h[i]
          /\ \A i \in 1..(Len(ray.points) - 1) :
                ~SqLess(DistanceToSq(ray.points[i + 1], ray.start),
                        DistanceToSq(ray.points[i], ray.start))

\* A ray that recorded a translucent cell and then, farther away, an opaque one.
C1_Witness ==
    /\ pc = "done"
    /\ Len(ray.points) = 2
    /\ Hits(ray)[1].cell.kind = "TranslucentTexture"
    /\ Opaque(Hits(ray)[2].cell)
    /\ SqLess(DistanceToSq(ray.points[1], ray.start),
              DistanceToSq(ray.points[2], ray.start))
    /\ \E v \in {ray.visited[i] : i \in 1..Len(ray.visited)} : v.cell = EMPTY

\* The points the claim C2 describes for a ray along row r0 from column c0:
\* one per TranslucentTexture cell up to the first opaque cell, then that one.
RECURSIVE RowHits(_, _, _, _)
RowHits(b, c0, r0, c) ==
    IF c >= b.cols \/ 2 * (c - c0) - 1 >= 2 * FAR_CLIPING_PLANE THEN <<>>
    ELSE LET cell == BoardAt(b, c, r0)
             here == <<Vec(Int2Num(c), Half(2 * r0 + 1))>>
         IN  IF cell = EMPTY THEN RowHits(b, c0, r0, c + 1)
             ELSE IF Opaque(cell) THEN here
             ELSE here \o RowHits(b, c0, r0, c + 1)

\* C2: a ray cast from the centre of an EMPTY cell (c0, r0) with direction
\* (1, 0) returns one point (c, r0 + 0.5) per TranslucentTexture cell of row r0
\* to the right of c0 and before the first opaque cell, then one for that
\* opaque cell, and nothing else.
C2_RowHitsExactly ==
    \A c0 \in 0..(board.cols - 1), r0 \in 0..(board.rows - 1) :
       (/\ pc = "done"
        /\ ray.dir = Vec(Int2Num(1), Zero)
        /\ ray.start = Vec(Half(2 * c0 + 1), Half(2 * r0 + 1))
        /\ BoardAt(board, c0, r0) = EMPTY)
       => ray.points = RowHits(board, c0, r0, c0 + 1)

StepBound == 2 * FAR_CLIPING_PLANE + 2

\* C3: on a board of EMPTY cells cast_ray records no point, its loop runs at
\* most 2 * FAR_CLIPING_PLANE + 2 times, and it is left because dist has
\* reached FAR_CLIPING_PLANE^2 or because dist equals last_dist.
C3_EmptyBoardTerminates ==
    (Casting /\ AllEmpty(board)) =>
       /\ ray.points = <<>>
       /\ Len(ray.visited) <= StepBound
       /\ ray.pc \in {"loop", "returned"}
       /\ ray.pc = "returned" =>
             ~SqLess(ray.dist, FarSq) \/ SqEq(ray.dist, ray.last_dist)
       /\ pc = "done" => column = <<Sentinel>>

\* A ray through an empty board that left the loop at the far clipping
\* distance after FAR_CLIPING_PLANE passes or more.
C3_Witness ==
    /\ Casting /\ AllEmpty(board)
    /\ ray.pc = "returned"
    /\ Len(ray.visited) >= FAR_CLIPING_PLANE
    /\ ~SqLess(ray.dist, FarSq)
    /\ ~SqEq(ray.dist, ray.last_dist)

\* C6: no assertion of Board::at fails: every index pair cast_ray and the
\* resolution of its points hand to Board::at lies in 0..cols-1 x 0..rows-1.
C6_LookupsInBounds ==
    Casting =>
       /\ ray.pc # "panicked"
       /\ pc # "panicked"
       /\ \A i \in 1..Len(ray.visited) :
             /\ ray.visited[i].x \in 0..(board.cols - 1)
             /\ ray.visited[i].y \in 0..(board.rows - 1)
       /\ \A i \in 1..Len(lookups) :
             /\ lookups[i][1] \in 0..(board.cols - 1)
             /\ lookups[i][2] \in 0..(board.rows - 1)

\* A ray whose points were looked up both on the board (by the resolution too)
\* and off it, on the negative side and beyond the last column or row.
C6_Witness ==
    /\ pc = "done"
    /\ lookups # <<>>
    /\ \E i \in 1..Len(ray.visited) :
          NumLess(ray.visited[i].point[1], Zero) \/ NumLess(ray.visited[i].point[2], Zero)
    /\ \E i \in 1..Len(ray.visited) :
          \/ NumLess(Int2Num(board.cols), ray.visited[i].point[1])
          \/ NumLess(Int2Num(board.rows), ray.visited[i].point[2])

\* What holds of a ray whose direction has x-component 0, whatever ends it.
VerticalAsHorizontal ==
    /\ ray.straight.a = Zero
    /\ ray.straight.b = ray.start[2]
    /\ ray.point = Vec(NumFloor(ray.start[1]), ray.start[2])
    /\ \A i \in 1..Len(ray.visited) : ray.visited[i].point = ray.point
    /\ Len(ray.visited) <= 1
    /\ Len(ray.points) <= 1
    /\ ray.pc = "returned" => Len(ray.visited) = 1

\* C7 as stated: a ray whose direction has x-component 0 is the horizontal
\* line y = start.y, its point never changes, and cast_ray returns through
\* the check dist != last_dist after looking up a single cell.
C7_StallAlways ==
    (Casting /\ ray.dir[1] = Zero) =>
       /\ VerticalAsHorizontal
       /\ ray.pc = "returned" => SqEq(ray.dist, ray.last_dist)

\* C7 as amended: the same, but cast_ray returns through the check
\* dist != last_dist only if the single cell it looked up is not opaque; at
\* an opaque cell it records the point and leaves through the break.
C7_StallUnlessOpaque ==
    (Casting /\ ray.dir[1] = Zero) =>
       /\ VerticalAsHorizontal
       /\ ray.pc = "returned" =>
             IF Opaque(ray.visited[1].cell)
             THEN ray.points = <<ray.point>> /\ ~SqEq(ray.dist, ray.last_dist)
             ELSE SqEq(ray.dist, ray.last_dist) /\ SqLess(ray.dist, FarSq)

\* A vertical ray that looked up a translucent cell, recorded its point and
\* returned through the stall check.
C7_Witness ==
    /\ pc = "done"
    /\ ray.dir[1] = Zero /\ ray.dir[2] # Zero
    /\ Len(ray.points) = 1
    /\ ray.visited[1].cell.kind = "TranslucentTexture"
    /\ SqEq(ray.dist, ray.last_dist)

\* C10: every entry of a column after the sentinel pairs its point with the
\* cell, not EMPTY, whose lookup made cast_ray record the point; the point
\* lies in the rectangle of the board; no cell yields two points of a ray.
C10_HitsAreBoardCells ==
    pc = "done" =>
       LET h == Hits(ray)
       IN  /\ Len(column) = Len(h) + 1
           /\ \A i \in 1..Len(h) :
                 /\ column[i + 1].cell # EMPTY
                 /\ column[i + 1].cell = h[i].cell
                 /\ column[i + 1].point = h[i].point
                 /\ ~NumLess(h[i].point[1], Zero) /\ ~NumLess(h[i].point[2], Zero)
                 /\ ~NumLess(Int2Num(board.cols), h[i].point[1])
                 /\ ~NumLess(Int2Num(board.rows), h[i].point[2])
           /\ \A i, j \in 1..Len(h) :
                 (i # j) => <<h[i].x, h[i].y>> # <<h[j].x, h[j].y>>

-----------------------------------------------------------------------------
(* Claims about a frame.                                                   *)

\* C4: get_hitted_cells returns NUM_OF_RAYS columns; every column starts
\* with the sentinel (EMPTY, (0, 0)), before its ray is cast and after; and a
\* column has one entry more than its ray recorded points, so the column of
\* a ray that recorded none is the sentinel alone.
C4_SentinelFirst ==
    pc \in {"fov", "render", "shown"} =>
       /\ Len(all_cells) = NUM_OF_RAYS
       /\ \A i \in 1..NUM_OF_RAYS :
             /\ all_cells[i] # <<>>
             /\ all_cells[i][1] = Sentinel
             /\ (pc = "fov" /\ i > cursor) => all_cells[i] = <<Sentinel>>
       /\ (pc = "fov" /\ cursor > 0) =>
             Len(all_cells[cursor]) =
                1 + Len(cast_ray(player.pos, FovDir(player.dir, cursor - 1), board).points)

\* get_hitted_cells has returned an array with a column that is the sentinel
\* alone and a column with hits.
C4_Witness ==
    /\ pc = "render"
    /\ \E i \in 1..NUM_OF_RAYS : all_cells[i] = <<Sentinel>>
    /\ \E i \in 1..NUM_OF_RAYS : Len(all_cells[i]) > 2

\* The two amounts are the same number: sqrt n = dist / sqrt n iff dist = n.
SameAmount(a, b) ==
    IF a.of = b.of THEN a = b
    ELSE LET whole == IF a.of = "max_dist" THEN a ELSE b
             ratio == IF a.of = "max_dist" THEN b ELSE a
         IN  /\ whole.sq = ratio.sq
             /\ ratio.dist = NumAdd(NumMul(whole.sq.x, whole.sq.x),
                                    NumMul(whole.sq.y, whole.sq.y))

\* 1 - amount lies in [0, 1].
FactorInUnit(a) ==
    IF a.of = "max_dist" THEN ~SqLess(LengthSqr(Vec(Int2Num(1), Zero)), a.sq)
    ELSE /\ ~NumLess(a.dist, Zero)
         /\ ~SqLess(a.sq, LengthSqr(Vec(a.dist, Zero)))

\* C9: the colour of a COLOR cell is drawn with its value multiplied by
\* 1 - dist / max_dist, dist being the hit's distance along the player's
\* direction; the factor lies in [0, 1] when 0 <= dist <= max_dist.
C9_ColorFogByDistance ==
    \A i \in 1..Len(drawn) :
       drawn[i].cell.kind = "COLOR" =>
          /\ SameAmount(drawn[i].color.less, RatioOf(drawn[i].dist, MaxDist(board)))
          /\ FactorInUnit(RatioOf(drawn[i].dist, MaxDist(board)))
                => FactorInUnit(drawn[i].color.less)

-----------------------------------------------------------------------------
(* Claims about the transform.                                             *)

\* The position of a transformed shape.
Position(a) == [x |-> a.x, y |-> a.y]

SameSize(a, b) ==
    shape.kind = "Rectangle" => a.width = b.width /\ a.height = b.height

\* C8 as stated: apply_zoom is apply minus the offset, component by
\* component, and a Rectangle gets the same width and height from both.
C8_ZoomIsApplyMinusOffset ==
    pc = "applied" =>
       /\ Position(out.apply_zoom) = Vector2Sub(Position(out.apply), transform.offset)
       /\ SameSize(out.apply, out.apply_zoom)

\* C8 as amended: apply is the f32 sum of apply_zoom and the offset,
\* component by component; apply minus the offset is apply_zoom again
\* when the offset is zero; a Rectangle gets the same width and height.
C8_ApplyIsZoomPlusOffset ==
    pc = "applied" =>
       /\ Position(out.apply) = Vector2Add(Position(out.apply_zoom), transform.offset)
       /\ transform.offset = [x |-> Canon(0, 0), y |-> Canon(0, 0)] =>
             Position(out.apply_zoom) = Vector2Sub(Position(out.apply), transform.offset)
       /\ SameSize(out.apply, out.apply_zoom)

\* A Rectangle whose sum with the offset was rounded: taking the offset off
\* again does not give apply_zoom back.
C8_Witness ==
    /\ pc = "applied"
    /\ shape.kind = "Rectangle"
    /\ transform.zoom.x # transform.zoom.y
    /\ F32Sub(out.apply.x, transform.offset.x) # out.apply_zoom.x
    /\ Position(out.apply) = Vector2Add(Position(out.apply_zoom), transform.offset)

=============================================================================
